---------------------------- MODULE Spec2Model ----------------------------
(***************************************************************************)
(* Model of the risk-report frontend: the Index page (src/pages/Index.tsx), *)
(* the AddressInput form and the DecisionBadge (components/AddressInput.tsx)*)
(* the LocationDataCard and the dev-server configuration (vite.config.ts).  *)
(*                                                                         *)
(* Text is modelled as a sequence of one-character strings so that trim,   *)
(* length, toUpperCase and includes are computed as JavaScript computes    *)
(* them.  A JSON object is a record; an optional field that is absent is   *)
(* absent from the record's DOMAIN.                                        *)
(***************************************************************************)
EXTENDS Integers, Sequences, FiniteSets, TLC

\* A nullable value (T | null) is NULL or Some(v); Val reads the value back.
NULL == <<>>
Some(v) == <<v>>
Val(o) == o[1]

(***************************************************************************)
(* Bounds of the model.                                                    *)
(***************************************************************************)
\* How many risk-report submits a behaviour may hold (caps formResetKey).
MaxSubmits == 2
\* How many Mapbox geocoding requests may be in flight at once.
MaxGeocoding == 1
\* How many risk-report requests the handler harness may hold in flight.
MaxInFlight == 2

(***************************************************************************)
(* JavaScript string operations.                                           *)
(***************************************************************************)
WhiteSpace == {" ", "\t", "\n"}

RECURSIVE TrimStart(_)
TrimStart(s) ==
    IF s = <<>> THEN <<>>
    ELSE IF Head(s) \in WhiteSpace THEN TrimStart(Tail(s)) ELSE s

RECURSIVE TrimEnd(_)
TrimEnd(s) ==
    IF s = <<>> THEN <<>>
    ELSE IF s[Len(s)] \in WhiteSpace THEN TrimEnd(SubSeq(s, 1, Len(s) - 1)) ELSE s

\* String.prototype.trim
Trim(s) == TrimEnd(TrimStart(s))

\* JavaScript truthiness of a string: the empty string is falsy.
Truthy(s) == s # <<>>

Lower == <<"a", "b", "c", "d", "e", "f", "g", "h", "i", "j", "k", "l", "m",
           "n", "o", "p", "q", "r", "s", "t", "u", "v", "w", "x", "y", "z">>
Upper == <<"A", "B", "C", "D", "E", "F", "G", "H", "I", "J", "K", "L", "M",
           "N", "O", "P", "Q", "R", "S", "T", "U", "V", "W", "X", "Y", "Z">>

UpperChar(c) ==
    IF \E i \in 1..26 : Lower[i] = c
    THEN Upper[CHOOSE i \in 1..26 : Lower[i] = c]
    ELSE c

\* String.prototype.toUpperCase
ToUpperCase(s) == [i \in 1..Len(s) |-> UpperChar(s[i])]

\* String.prototype.includes
Includes(s, sub) ==
    \E i \in 0..(Len(s) - Len(sub)) : SubSeq(s, i + 1, i + Len(sub)) = sub


(***************************************************************************)
(* Data the environment supplies.                                          *)
(***************************************************************************)
\* Values of e.target.value the user can produce in the address field.
TypedTexts ==
    { <<>>,
      <<" ", " ", " ">>,
      <<"O", "a">>,
      <<"O", "a", "k">> }

\* MapboxFeature (id, place_name, center = [longitude, latitude]).
FeatureOak ==
    [id |-> "place.1",
     place_name |-> <<"O", "a", "k", " ", "S", "t">>,
     center |-> <<-122, 37>>]
FeatureElm ==
    [id |-> "place.2",
     place_name |-> <<"E", "l", "m", " ">>,
     center |-> <<10, 0>>]
Features == {FeatureOak, FeatureElm}

\* data.features of a Mapbox answer; NULL stands for a body without the field.
FeatureLists == {NULL, Some(<<>>), Some(<<FeatureOak, FeatureElm>>)}

\* Mapbox tokens: the empty text is "no token".
NoToken == <<>>
EnvToken == <<"p", "k", "1">>
StoredToken == <<"p", "k", "2">>
TypedToken == <<"p">>

\* automated_decision values: the ones the README documents and the ones the
\* glossary of the specification names.
APPROVE == <<"A", "P", "P", "R", "O", "V", "E">>
REJECT == <<"R", "E", "J", "E", "C", "T">>
REVIEW == <<"R", "E", "V", "I", "E", "W">>
approve == <<"a", "p", "p", "r", "o", "v", "e">>
deny == <<"d", "e", "n", "y">>
review == <<"r", "e", "v", "i", "e", "w">>

RiskScores == <<[risk_type |-> "Flood", score |-> 20, explanation |-> "low"]>>
Location == [address |-> "Oak St", latitude |-> 37, longitude |-> -122]
LocationData == [fire_history |-> [has_fire |-> FALSE]]

\* A response body with the fields `{overall_summary, automated_decision,
\* risk_scores}`, to which location and location_data may be added.
Body(decision) ==
    [overall_summary |-> "summary",
     automated_decision |-> decision,
     risk_scores |-> RiskScores]
WithLocation(b) ==
    [f \in DOMAIN b \cup {"location"} |->
        IF f = "location" THEN Location ELSE b[f]]
WithLocationData(b) ==
    [f \in DOMAIN b \cup {"location_data"} |->
        IF f = "location_data" THEN LocationData ELSE b[f]]

\* The JSON objects a 2xx answer may carry.
ResponseBodies ==
    { WithLocation(Body(APPROVE)),
      WithLocationData(WithLocation(Body(REJECT))),
      WithLocation(Body(REVIEW)),
      WithLocationData(WithLocation(Body(approve))),
      WithLocation(Body(deny)),
      WithLocationData(WithLocation(Body(review))),
      WithLocationData(Body(APPROVE)) }

\* HTTP statuses the backend answers with.
Statuses == {200, 204, 500}

\* What `await fetch(...)` / `await response.json()` can throw: an Error with
\* a message, or a value that is no Error.
Thrown ==
    { [isError |-> TRUE, message |-> "Failed to fetch"],
      [isError |-> FALSE] }
JsonSyntaxError == [isError |-> TRUE, message |-> "Unexpected token < in JSON"]

\* Build configuration.
Modes == {"development", "production"}
DevServerOrigin == "http://localhost:8080"
LocalBackend == "http://localhost:5001"
RemoteBackend == "https://api.example.com"
ProxyTarget == "https://environmental-risk-scorer.onrender.com"
\* import.meta.env.VITE_API_URL ("" when unset)
ApiUrlSettings == {"", DevServerOrigin, RemoteBackend}

(***************************************************************************)
(* vite.config.ts: the dev server and its proxy.                           *)
(***************************************************************************)
\* server.proxy: `mode === "development" ? {"/api": {target, ...}} : undefined`
ProxyConfig(m) ==
    IF m = "development"
    THEN Some([prefix |-> <<"api">>, target |-> ProxyTarget])
    ELSE NULL

\* Where a request of the page ends up.  Only a request addressed to the dev
\* server itself (host "::", port 8080) passes through the server's proxy
\* table; a request to any other origin goes to that origin.
Route(m, url) ==
    IF /\ url.origin = DevServerOrigin
       /\ ProxyConfig(m) # NULL
       /\ Len(url.path) >= Len(Val(ProxyConfig(m)).prefix)
       /\ SubSeq(url.path, 1, Len(Val(ProxyConfig(m)).prefix))
              = Val(ProxyConfig(m)).prefix
    THEN [via |-> "proxy", to |-> Val(ProxyConfig(m)).target]
    ELSE [via |-> "direct", to |-> url.origin]

(***************************************************************************)
(* pages/Index.tsx                                                         *)
(***************************************************************************)
\* useState initialiser of mapboxToken: envToken || localStorage || ""
InitialMapboxToken(envKey, stored) ==
    IF Truthy(envKey) THEN envKey
    ELSE IF Truthy(stored) THEN stored
    ELSE NoToken

\* showTokenInput={!import.meta.env.VITE_MAPBOX_API_KEY}
ShowTokenInput(envKey) == ~Truthy(envKey)

\* const apiUrl = import.meta.env.VITE_API_URL || "http://localhost:5001"
ApiUrl(setting) == IF setting # "" THEN setting ELSE LocalBackend

\* RequestBody with the test written `if (coordinates && coordinates.lat)`.
RequestBodyTruthyLat(addr, coordinates) ==
    IF coordinates # NULL /\ Val(coordinates).lat # 0
    THEN [address |-> addr,
          latitude |-> Val(coordinates).lat,
          longitude |-> Val(coordinates).lng]
    ELSE [address |-> addr]

\* requestBody: {address}, plus latitude and longitude `if (coordinates)`
RequestBody(addr, coordinates) ==
    IF coordinates # NULL
    THEN [address |-> addr,
          latitude |-> Val(coordinates).lat,
          longitude |-> Val(coordinates).lng]
    ELSE [address |-> addr]

\* The fetch handleAddressSubmit issues.  `args` keeps the arguments the
\* handler was called with (history, not sent).
RiskRequest(setting, addr, coordinates) ==
    [url |-> [origin |-> ApiUrl(setting), path |-> <<"api", "get-risk-report">>],
     method |-> "POST",
     body |-> RequestBody(addr, coordinates),
     args |-> [address |-> addr, coordinates |-> coordinates]]

\* The requests one call of handleAddressSubmit sends.
RequestsSent(setting, addr, coordinates) ==
    <<RiskRequest(setting, addr, coordinates)>>

\* response.ok
ResponseOk(status) == status \in 200..299

\* throw new Error(`API error: ${response.status}`)
ApiError(status) ==
    [isError |-> TRUE, message |-> "API error: " \o ToString(status)]

\* err instanceof Error ? err.message : "Failed to fetch risk assessment"
CatchMessage(err) ==
    IF err.isError THEN err.message ELSE "Failed to fetch risk assessment"

(***************************************************************************)
(* components: DecisionBadge, LocationDataCard, AddressInput               *)
(***************************************************************************)
\* getDecisionConfig(decision).label
getDecisionConfig(decision) ==
    LET normalized == ToUpperCase(decision) IN
    IF Includes(normalized, <<"A", "P", "P", "R", "O", "V", "E">>)
    THEN [label |-> "Approved", variant |-> "success"]
    ELSE IF Includes(normalized, <<"D", "E", "N", "Y">>)
    THEN [label |-> "Denied", variant |-> "danger"]
    ELSE [label |-> "Flag for Review", variant |-> "warning"]

\* LocationDataCard with its test inverted: `if (locationData) return null`.
LocationDataCardInverted(locationData) ==
    IF locationData # NULL THEN NULL ELSE Some("Location Data (Earth Engine)")

\* LocationDataCard: `if (!locationData) return null`, a card otherwise.
LocationDataCard(locationData) ==
    IF locationData = NULL THEN NULL ELSE Some("Location Data (Earth Engine)")

\* fetchSuggestions' early return
FetchSkipped(addr, token) ==
    \/ ~Truthy(Trim(addr))
    \/ ~Truthy(token)
    \/ Len(addr) < 3

\* SubmitAccepted without `&& selectedCoordinates`.
SubmitAcceptedWithoutCoordinates(addr, coordinates) ==
    Truthy(Trim(addr))

\* handleSubmit: `if (address.trim() && selectedCoordinates)`
SubmitAccepted(addr, coordinates) ==
    Truthy(Trim(addr)) /\ coordinates # NULL

\* The arguments handleSubmit passes to onSubmit.
OnSubmitArgs(addr, coordinates) ==
    [address |-> Trim(addr), coordinates |-> coordinates]

\* SuggestionCoordinates reading center as [latitude, longitude].
SuggestionCoordinatesSwapped(feature) ==
    [lat |-> feature.center[1], lng |-> feature.center[2]]

\* handleSelectSuggestion: {lat: feature.center[1], lng: feature.center[0]}
SuggestionCoordinates(feature) ==
    [lat |-> feature.center[2], lng |-> feature.center[1]]

\* <Input disabled={isLoading}>
InputDisabled(loading) == loading

\* ButtonDisabled without `|| isLoading`.
ButtonDisabledIgnoringLoading(addr, coordinates, loading) ==
    \/ ~Truthy(Trim(addr))
    \/ coordinates = NULL

\* <Button disabled={!address.trim() || !selectedCoordinates || isLoading}>
ButtonDisabled(addr, coordinates, loading) ==
    \/ ~Truthy(Trim(addr))
    \/ coordinates = NULL
    \/ loading

\* {showSuggestions && suggestions.length > 0 && (...)}
ListShown(show, list) == show /\ Len(list) > 0

\* {showTokenInput && !mapboxToken && (...)}
TokenInputShown(envKey, token) == ShowTokenInput(envKey) /\ ~Truthy(token)

\* What Index renders for a state of the page: the render throws a TypeError
\* when it reads report.location.address or report.risk_scores.map of a
\* report without the field; otherwise it shows the sections below.
IndexView(rep, loading, err) ==
    IF /\ rep # NULL
       /\ \/ "location" \notin DOMAIN Val(rep)
          \/ "risk_scores" \notin DOMAIN Val(rep)
    THEN [threw |-> TRUE]
    ELSE [threw |-> FALSE,
          banner |-> IF err # NULL /\ Val(err) # "" THEN err ELSE NULL,
          results |-> rep # NULL,
          locationCard |->
              IF rep # NULL /\ "location_data" \in DOMAIN Val(rep)
              THEN LocationDataCard(Some(Val(rep).location_data))
              ELSE NULL,
          badge |->
              IF rep # NULL
              THEN Some(getDecisionConfig(Val(rep).automated_decision).label)
              ELSE NULL,
          empty |-> rep = NULL /\ ~loading /\ ~(err # NULL /\ Val(err) # "")]

(***************************************************************************)
(* What a risk-report request can meet.                                    *)
(***************************************************************************)
\* fetch rejects (network error)
Threw(e) == [kind |-> "network", err |-> e]
\* fetch resolves with `status`; `parsed` is what response.json() gives: NULL
\* when it throws (an empty body, a body that is no JSON) or is never called
\* (a status that is not 2xx), Some(data) otherwise, where data is NULL for the
\* JSON literal null and Some(object) for an object.
Http(status, parsed) == [kind |-> "http", status |-> status, parsed |-> parsed]

JsonData == {NULL} \cup {Some(b) : b \in ResponseBodies}

RiskOutcomes ==
    {Threw(e) : e \in Thrown}
        \cup {Http(st, NULL) : st \in Statuses}
        \cup {Http(200, Some(d)) : d \in JsonData}

\* ErrorThrown without the `if (!response.ok)` test.
ErrorThrownIgnoringStatus(outcome) ==
    IF outcome.kind = "network" THEN Some(outcome.err)
    ELSE IF outcome.parsed = NULL THEN Some(JsonSyntaxError)
    ELSE NULL

\* The error the try block of handleAddressSubmit throws on an outcome, or
\* NULL when it runs to its end.
ErrorThrown(outcome) ==
    IF outcome.kind = "network" THEN Some(outcome.err)
    ELSE IF ~ResponseOk(outcome.status) THEN Some(ApiError(outcome.status))
    ELSE IF outcome.parsed = NULL THEN Some(JsonSyntaxError)
    ELSE NULL

\* Configurations of a deployment: mode, VITE_API_URL, VITE_MAPBOX_API_KEY and
\* the token localStorage holds when the page loads.
Configs ==
    { [mode |-> "development", apiUrl |-> "", envKey |-> NoToken, stored |-> NoToken],
      [mode |-> "development", apiUrl |-> DevServerOrigin, envKey |-> EnvToken, stored |-> NoToken],
      [mode |-> "production", apiUrl |-> RemoteBackend, envKey |-> NoToken, stored |-> StoredToken],
      [mode |-> "production", apiUrl |-> "", envKey |-> EnvToken, stored |-> StoredToken] }

(***************************************************************************)
(* State.                                                                  *)
(***************************************************************************)
VARIABLES
    config,               \* the deployment's configuration (never changes)
    localStorage,         \* localStorage["mapbox_token"]
    \* Index
    isLoading, report, error, formResetKey, mapboxToken, toast,
    crashed,              \* a render of Index threw
    \* AddressInput
    address, suggestions, showSuggestions, selectedCoordinates,
    debounce,             \* the pending setTimeout(fetchSuggestions, 300)
    geocoding,            \* Mapbox requests in flight (the address each asked for)
    riskRequests,         \* risk-report requests in flight
    \* history
    submits,              \* calls of handleAddressSubmit so far
    posts,                \* POSTs to /api/get-risk-report issued so far
    lastSelected,         \* the feature handleSelectSuggestion got last
    lastResponse,         \* what the last finished risk-report request met
    lastFormEvent         \* the last event of the form: change, select, submit

indexVars == <<isLoading, report, error, formResetKey, mapboxToken, toast, crashed>>
inputVars == <<address, suggestions, showSuggestions, selectedCoordinates>>
envVars == <<config, localStorage, debounce, geocoding, riskRequests>>
programVars == <<indexVars, inputVars, envVars>>
vars == <<programVars, submits, posts, lastSelected, lastResponse, lastFormEvent>>

View == IndexView(report, isLoading, error)

Init ==
    /\ config \in Configs
    /\ localStorage = config.stored
    /\ isLoading = FALSE
    /\ report = NULL
    /\ error = NULL
    /\ formResetKey = 0
    /\ mapboxToken = InitialMapboxToken(config.envKey, config.stored)
    /\ toast = NULL
    /\ crashed = FALSE
    /\ address = <<>>
    /\ suggestions = <<>>
    /\ showSuggestions = FALSE
    /\ selectedCoordinates = NULL
    \* the effect runs once on mount
    /\ debounce = Some([address |-> <<>>,
                        token |-> InitialMapboxToken(config.envKey, config.stored)])
    /\ geocoding = <<>>
    /\ riskRequests = <<>>
    /\ submits = 0
    /\ posts = 0
    /\ lastSelected = NULL
    /\ lastResponse = NULL
    /\ lastFormEvent = "none"

(***************************************************************************)
(* AddressInput: the suggestions effect.                                   *)
(***************************************************************************)
\* useEffect(..., [address, mapboxToken]): when either changed, the cleanup
\* clears the pending timer and a new one is set; the timer's closure holds
\* the address and the token of that render.
EffectTimer(newAddress, newToken) ==
    IF newAddress # address \/ newToken # mapboxToken
    THEN Some([address |-> newAddress, token |-> newToken])
    ELSE debounce

\* The 300 ms timer fires: fetchSuggestions runs up to its first await.
DebounceFires ==
    /\ ~crashed
    /\ debounce # NULL
    /\ debounce' = NULL
    /\ IF FetchSkipped(Val(debounce).address, Val(debounce).token)
       THEN /\ suggestions' = <<>>
            /\ UNCHANGED geocoding
       ELSE /\ Len(geocoding) < MaxGeocoding
            /\ geocoding' = Append(geocoding, Val(debounce).address)
            /\ UNCHANGED suggestions
    /\ UNCHANGED lastFormEvent
    /\ UNCHANGED <<indexVars, address, showSuggestions, selectedCoordinates,
                   config, localStorage, riskRequests,
                   submits, posts, lastSelected, lastResponse>>

Without(seq, i) == SubSeq(seq, 1, i - 1) \o SubSeq(seq, i + 1, Len(seq))

\* Mapbox answers the i-th request in flight with a 2xx status:
\* setSuggestions(data.features || []); setShowSuggestions(true)
GeocodingAnswers(i, features) ==
    /\ ~crashed
    /\ i \in DOMAIN geocoding
    /\ geocoding' = Without(geocoding, i)
    /\ suggestions' = IF features # NULL THEN Val(features) ELSE <<>>
    /\ showSuggestions' = TRUE
    /\ UNCHANGED lastFormEvent
    /\ UNCHANGED <<indexVars, address, selectedCoordinates,
                   config, localStorage, debounce, riskRequests,
                   submits, posts, lastSelected, lastResponse>>

\* Mapbox answers with another status, or the fetch throws: nothing is set.
GeocodingFails(i) ==
    /\ ~crashed
    /\ i \in DOMAIN geocoding
    /\ geocoding' = Without(geocoding, i)
    /\ UNCHANGED lastFormEvent
    /\ UNCHANGED <<indexVars, inputVars, config, localStorage, debounce,
                   riskRequests, submits, posts, lastSelected, lastResponse>>

(***************************************************************************)
(* AddressInput: the user's events.                                        *)
(***************************************************************************)
\* onChange of the address field
ChangeAddress(text) ==
    /\ ~crashed
    /\ ~InputDisabled(isLoading)
    /\ text # address
    /\ address' = text
    /\ selectedCoordinates' = NULL
    /\ debounce' = EffectTimer(text, mapboxToken)
    /\ lastFormEvent' = "change"
    /\ UNCHANGED <<indexVars, suggestions, showSuggestions,
                   config, localStorage, geocoding, riskRequests,
                   submits, posts, lastSelected, lastResponse>>

\* handleSelectSuggestion(feature), from a click on a row of the open list
SelectSuggestion(feature) ==
    /\ ~crashed
    /\ ListShown(showSuggestions, suggestions)
    /\ \E i \in DOMAIN suggestions : suggestions[i] = feature
    /\ address' = feature.place_name
    /\ selectedCoordinates' = Some(SuggestionCoordinates(feature))
    /\ showSuggestions' = FALSE
    /\ suggestions' = <<>>
    /\ debounce' = EffectTimer(feature.place_name, mapboxToken)
    /\ lastSelected' = Some(feature)
    /\ lastFormEvent' = "select"
    /\ UNCHANGED <<indexVars, config, localStorage, geocoding, riskRequests,
                   submits, posts, lastResponse>>

\* handleClickOutside
ClickOutside ==
    /\ ~crashed
    /\ showSuggestions' = FALSE
    /\ UNCHANGED lastFormEvent
    /\ UNCHANGED <<indexVars, address, suggestions, selectedCoordinates,
                   envVars, submits, posts, lastSelected, lastResponse>>

\* Index.handleTokenChange(token), from the token field
ChangeToken(token) ==
    /\ ~crashed
    /\ TokenInputShown(config.envKey, mapboxToken)
    /\ token # mapboxToken
    /\ mapboxToken' = token
    /\ localStorage' = IF ~Truthy(config.envKey) THEN token ELSE localStorage
    /\ debounce' = EffectTimer(address, token)
    /\ UNCHANGED lastFormEvent
    /\ UNCHANGED <<isLoading, report, error, formResetKey, toast, crashed,
                   inputVars, config, geocoding, riskRequests,
                   submits, posts, lastSelected, lastResponse>>

(***************************************************************************)
(* Index.handleAddressSubmit                                               *)
(***************************************************************************)
\* SubmitStart without setReport(null).
SubmitStartKeepingReport(rep, err) ==
    [isLoading |-> TRUE, error |-> NULL, report |-> rep]

\* setIsLoading(true); setError(null); setReport(null)
SubmitStart(rep, err) ==
    [isLoading |-> TRUE, error |-> NULL, report |-> NULL]

\* The catch block: setError(errorMessage) and the destructive toast.
OnFailure(err) ==
    [error |-> Some(CatchMessage(err)),
     toast |-> Some([title |-> "Error", description |-> CatchMessage(err)])]

\* setReport(data); setFormResetKey(prev => prev + 1); toast
OnSuccess(data, key) ==
    [report |-> data,
     formResetKey |-> key + 1,
     toast |-> Some([title |-> "Risk Assessment Complete",
                     description |-> "Property risk analysis has been generated successfully."])]

\* The handler up to its first await: the three state updates and the fetch.
HandleAddressSubmit(addr, coordinates) ==
    /\ submits < MaxSubmits
    /\ Len(riskRequests) < MaxInFlight
    /\ isLoading' = SubmitStart(report, error).isLoading
    /\ error' = SubmitStart(report, error).error
    /\ report' = SubmitStart(report, error).report
    /\ riskRequests' = riskRequests \o RequestsSent(config.apiUrl, addr, coordinates)
    /\ submits' = submits + 1
    /\ posts' = posts + Len(RequestsSent(config.apiUrl, addr, coordinates))
    /\ lastResponse' = NULL
    /\ UNCHANGED <<formResetKey, mapboxToken, toast, crashed>>

\* The handler from the fetch's settling to its end (try / catch / finally),
\* and the render of the resulting state.
RiskResponds(i, outcome) ==
    /\ ~crashed
    /\ i \in DOMAIN riskRequests
    /\ riskRequests' = Without(riskRequests, i)
    /\ IF ErrorThrown(outcome) # NULL
       THEN /\ error' = OnFailure(Val(ErrorThrown(outcome))).error
            /\ toast' = OnFailure(Val(ErrorThrown(outcome))).toast
            /\ UNCHANGED <<report, formResetKey>>
       ELSE /\ report' = OnSuccess(Val(outcome.parsed), formResetKey).report
            /\ formResetKey' = OnSuccess(Val(outcome.parsed), formResetKey).formResetKey
            /\ toast' = OnSuccess(Val(outcome.parsed), formResetKey).toast
            /\ UNCHANGED error
    /\ isLoading' = FALSE
    /\ crashed' = IndexView(report', isLoading', error').threw
    /\ lastResponse' = Some(outcome)
    /\ UNCHANGED lastFormEvent
    /\ UNCHANGED <<mapboxToken, inputVars, config, localStorage, debounce,
                   geocoding, submits, posts, lastSelected>>

(***************************************************************************)
(* AddressInput.handleSubmit                                               *)
(***************************************************************************)
\* The form's submit handler: onSubmit(address.trim(), selectedCoordinates)
\* and setShowSuggestions(false) when the test passes, nothing otherwise.
HandleSubmit ==
    /\ ~crashed
    /\ IF SubmitAccepted(address, selectedCoordinates)
       THEN /\ HandleAddressSubmit(OnSubmitArgs(address, selectedCoordinates).address,
                                   OnSubmitArgs(address, selectedCoordinates).coordinates)
            /\ showSuggestions' = FALSE
            /\ lastFormEvent' = "submit"
            /\ UNCHANGED <<address, suggestions, selectedCoordinates,
                           config, localStorage, debounce, geocoding, lastSelected>>
       ELSE /\ lastFormEvent' = "submitIgnored"
            /\ UNCHANGED <<programVars, submits, posts, lastSelected, lastResponse>>

\* The user clicks the submit button (or presses Enter in a field, which a
\* browser turns into a click of the form's default button): only an enabled
\* button submits the form.
ClickSubmit ==
    /\ ~ButtonDisabled(address, selectedCoordinates, isLoading)
    /\ HandleSubmit

\* A submit event dispatched on the form itself, whatever the button's state.
DispatchSubmit == HandleSubmit

\* onSubmit called with any arguments its type in Index allows.
CallOnSubmit(addr, coordinates) ==
    /\ ~crashed
    /\ HandleAddressSubmit(addr, coordinates)
    /\ UNCHANGED lastFormEvent
    /\ UNCHANGED <<inputVars, config, localStorage, debounce, geocoding, lastSelected>>

(***************************************************************************)
(* Specifications.                                                         *)
(***************************************************************************)
\* The page in a browser.
Next ==
    \/ \E text \in TypedTexts : ChangeAddress(text)
    \/ ChangeToken(TypedToken)
    \/ DebounceFires
    \/ \E i \in 1..MaxGeocoding, features \in FeatureLists : GeocodingAnswers(i, features)
    \/ \E i \in 1..MaxGeocoding : GeocodingFails(i)
    \/ \E feature \in Features : SelectSuggestion(feature)
    \/ ClickOutside
    \/ ClickSubmit
    \/ \E i \in 1..MaxInFlight, outcome \in RiskOutcomes : RiskResponds(i, outcome)

Spec == Init /\ [][Next]_vars

\* The handlers driven directly, as a component test drives them: the form's
\* submit event and the onSubmit prop are not guarded by the disabled button,
\* and the backend is a stub with two answers.
StubOutcomes ==
    {Http(500, NULL), Http(200, Some(Some(WithLocation(Body(APPROVE)))))}

OnSubmitInputs ==
    { [address |-> <<"O", "a", "k">>, coordinates |-> NULL],
      [address |-> <<"O", "a", "k">>, coordinates |-> Some([lat |-> 0, lng |-> 10])] }

NextHandlers ==
    \/ \E text \in TypedTexts : ChangeAddress(text)
    \/ DebounceFires
    \/ \E i \in 1..MaxGeocoding, features \in FeatureLists : GeocodingAnswers(i, features)
    \/ \E feature \in Features : SelectSuggestion(feature)
    \/ DispatchSubmit
    \/ \E in \in OnSubmitInputs : CallOnSubmit(in.address, in.coordinates)
    \/ \E i \in 1..MaxInFlight, outcome \in StubOutcomes : RiskResponds(i, outcome)

\* The harness mounts the page with a Mapbox token in the environment.
InitHandlers == Init /\ config.envKey = EnvToken /\ config.mode = "production"

SpecHandlers == InitHandlers /\ [][NextHandlers]_vars

(***************************************************************************)
(* Properties.                                                             *)
(***************************************************************************)
\* What the last finished request met, read off the history.
LastFailed ==
    /\ lastResponse # NULL
    /\ \/ Val(lastResponse).kind = "network"
       \/ /\ Val(lastResponse).kind = "http"
          /\ \/ Val(lastResponse).status \notin 200..299
             \/ Val(lastResponse).parsed = NULL

\* C1: when the POST answers with a non-2xx status, or the fetch or the JSON
\* parsing throws, handleAddressSubmit ends with error set to a message
\* (`API error: <status>` for a non-2xx status), report null and isLoading
\* false; the banner shows the message, no report is shown, and no request is
\* in flight afterwards (no retry).
C1_FailureEndsInError ==
    LastFailed =>
        /\ error # NULL
        /\ Val(error) # ""
        /\ (/\ Val(lastResponse).kind = "http"
            /\ Val(lastResponse).status \notin 200..299)
              => error = Some("API error: " \o ToString(Val(lastResponse).status))
        /\ report = NULL
        /\ isLoading = FALSE
        /\ riskRequests = <<>>
        /\ posts = submits
        /\ ~View.threw
        /\ View.banner = error
        /\ ~View.results

C1_Witness ==
    /\ lastResponse = Some(Http(500, NULL))
    /\ error = Some("API error: 500")
    /\ formResetKey = 1

\* C2 (as claimed): with no Mapbox token, a user who typed a non-empty address
\* can submit it: the submit button is enabled.
C2_SubmitWithoutToken ==
    (/\ mapboxToken = NoToken
     /\ Truthy(Trim(address))
     /\ ~isLoading
     /\ ~crashed)
        => ~ButtonDisabled(address, selectedCoordinates, isLoading)

\* C3: the body of every risk-report request holds address, and latitude and
\* longitude both (the coordinates' lat and lng) when handleAddressSubmit got
\* coordinates, neither when it got null.
C3_RequestBodyShape ==
    \A i \in DOMAIN riskRequests :
        LET b == riskRequests[i].body
            a == riskRequests[i].args
        IN /\ "address" \in DOMAIN b
           /\ b.address = a.address
           /\ DOMAIN b \subseteq {"address", "latitude", "longitude"}
           /\ IF a.coordinates # NULL
              THEN /\ {"latitude", "longitude"} \subseteq DOMAIN b
                   /\ b.latitude = Val(a.coordinates).lat
                   /\ b.longitude = Val(a.coordinates).lng
              ELSE DOMAIN b = {"address"}

C3_Witness ==
    /\ \E i \in DOMAIN riskRequests : riskRequests[i].args.coordinates = NULL
    /\ \E i \in DOMAIN riskRequests :
          /\ riskRequests[i].args.coordinates # NULL
          /\ Val(riskRequests[i].args.coordinates).lat = 0

\* C4: each submit issues exactly one POST and at most one risk-report request
\* is in flight: a request is in flight exactly while isLoading is true, and
\* then the address input and the submit button are disabled.
C4_OneRequestInFlight ==
    /\ posts = submits
    /\ Len(riskRequests) <= 1
    /\ isLoading <=> (Len(riskRequests) = 1)
    /\ isLoading =>
          /\ InputDisabled(isLoading)
          /\ ButtonDisabled(address, selectedCoordinates, isLoading)

C4_Witness ==
    /\ isLoading
    /\ Len(riskRequests) = 1
    /\ submits = 2
    /\ Truthy(Trim(address))
    /\ selectedCoordinates # NULL

\* C5: at most one of loading, error and success holds; while a request is in
\* flight the previous report and error are cleared; and the empty state is
\* shown exactly when none of the three holds.
C5_LoadingErrorSuccess ==
    /\ Cardinality({k \in {"loading", "error", "success"} :
                       \/ k = "loading" /\ isLoading
                       \/ k = "error" /\ error # NULL
                       \/ k = "success" /\ report # NULL}) <= 1
    /\ Len(riskRequests) > 0 => (report = NULL /\ error = NULL)
    /\ (~View.threw /\ View.empty)
          <=> (~isLoading /\ error = NULL /\ report = NULL)

C5_Witness ==
    /\ isLoading
    /\ formResetKey = 1
    /\ report = NULL
    /\ error = NULL

\* C6 (as claimed): each documented automated_decision gets its own badge:
\* APPROVE / approve is shown as "Approved", REJECT / deny as "Denied" and
\* REVIEW / review as "Flag for Review".
C6_DecisionBadges ==
    (report # NULL /\ ~View.threw) =>
        LET decision == Val(report).automated_decision IN
        /\ decision \in {APPROVE, approve} => View.badge = Some("Approved")
        /\ decision \in {REJECT, deny} => View.badge = Some("Denied")
        /\ decision \in {REVIEW, review} => View.badge = Some("Flag for Review")

\* The last finished request got a 2xx answer whose JSON body is an object
\* with the fields `required`.
LastSucceededWith(required) ==
    /\ lastResponse # NULL
    /\ Val(lastResponse).kind = "http"
    /\ Val(lastResponse).status \in 200..299
    /\ Val(lastResponse).parsed # NULL
    /\ Val(Val(lastResponse).parsed) # NULL
    /\ required \subseteq DOMAIN Val(Val(Val(lastResponse).parsed))

\* The page shows the body of the last answer as its report, with the
\* location-data card exactly when the body has location_data.
LastBodyDisplayed ==
    LET body == Val(Val(Val(lastResponse).parsed)) IN
    /\ report = Some(body)
    /\ error = NULL
    /\ isLoading = FALSE
    /\ ~View.threw
    /\ View.results
    /\ View.banner = NULL
    /\ (View.locationCard # NULL) <=> ("location_data" \in DOMAIN body)

C8_DevRequestsProxied ==
    \A i \in DOMAIN riskRequests :
        LET route == Route(config.mode, riskRequests[i].url) IN
        IF config.mode = "development"
        THEN route.via = "proxy"
        ELSE /\ ProxyConfig(config.mode) = NULL
             /\ route = [via |-> "direct",
                         to |-> IF config.apiUrl # "" THEN config.apiUrl
                                ELSE "http://localhost:5001"]

\* C9: a submit of the form calls onSubmit only when the trimmed address is
\* non-empty and coordinates are selected, with the trimmed address and those
\* coordinates; otherwise it calls nothing and changes no state.
C9_SubmitGuard ==
    [][DispatchSubmit =>
          IF Trim(address) # <<>> /\ selectedCoordinates # NULL
          THEN /\ submits' = submits + 1
               /\ Len(riskRequests') = Len(riskRequests) + 1
               /\ riskRequests'[Len(riskRequests')].args
                     = [address |-> Trim(address), coordinates |-> selectedCoordinates]
               /\ UNCHANGED <<address, selectedCoordinates, suggestions>>
          ELSE UNCHANGED <<programVars, submits, posts>>]_vars

C9_Witness ==
    /\ lastFormEvent = "submitIgnored"
    /\ Trim(address) # <<>>
    /\ selectedCoordinates = NULL
    /\ \E i \in DOMAIN riskRequests :
          riskRequests[i].args.address = <<"E", "l", "m">>

\* C10: selectedCoordinates is non-null only if the address field is the
\* place_name of the last selected suggestion and the coordinates are that
\* suggestion's {lat: center[1], lng: center[0]}; an edit of the address
\* leaves selectedCoordinates null; so every submitted request carries the
\* coordinates of the suggestion whose place_name was submitted.
C10_CoordinatesMatchAddress ==
    /\ selectedCoordinates # NULL =>
          /\ lastSelected # NULL
          /\ address = Val(lastSelected).place_name
          /\ Val(selectedCoordinates)
                = [lat |-> Val(lastSelected).center[2],
                   lng |-> Val(lastSelected).center[1]]
    /\ lastFormEvent = "change" => selectedCoordinates = NULL
    /\ \A i \in DOMAIN riskRequests :
          \E f \in Features :
              /\ riskRequests[i].args.address = Trim(f.place_name)
              /\ riskRequests[i].args.coordinates
                    = Some([lat |-> f.center[2], lng |-> f.center[1]])

C10_Witness ==
    /\ lastSelected = Some(FeatureOak)
    /\ lastFormEvent = "change"
    /\ address = <<"O", "a", "k">>
    /\ selectedCoordinates = NULL
    /\ submits = 1

\* C11 (as claimed): a Mapbox answer to a query that is no longer the address
\* text never replaces the suggestions and never reopens the list.
C11_StaleAnswerIgnored ==
    [][\A i \in DOMAIN geocoding, features \in FeatureLists :
          (GeocodingAnswers(i, features) /\ geocoding[i] # address)
              => /\ suggestions' = suggestions
                 /\ ListShown(showSuggestions', suggestions')
                       => ListShown(showSuggestions, suggestions)]_vars

\* C12 (as claimed): after a selection, and until the address is edited, the
\* list stays closed; in particular the answer to the query the selection
\* itself started (the query for the selected place_name, which is the
\* address) does not reopen it.
C12_ClosedAfterSelection ==
    [][\A i \in DOMAIN geocoding, features \in FeatureLists :
          (/\ GeocodingAnswers(i, features)
           /\ lastFormEvent \in {"select", "submit"}
           /\ lastSelected # NULL
           /\ address = Val(lastSelected).place_name
           /\ geocoding[i] = address)
              => ~ListShown(showSuggestions', suggestions')]_vars

\* C13 (as claimed): after a report is fetched successfully, and before the
\* user touches the form again, formResetKey has been incremented and the
\* form is back in its initial state: empty address, no selected coordinates.
C13_FormResetOnSuccess ==
    (/\ LastSucceededWith({"location", "risk_scores"})
     /\ lastFormEvent = "submit"
     /\ ~crashed)
        => /\ formResetKey >= 1
           /\ address = <<>>
           /\ selectedCoordinates = NULL

=============================================================================
